---- MODULE Spec2Model ----
(***************************************************************************)
(* LogeTogo API: the server lifecycle of startServer / createServer /     *)
(* prismaPlugin (apps/api/src/server.ts, apps/api/src/plugins/prisma.ts)   *)
(* and the request checks of securityPlugin                               *)
(* (apps/api/src/plugins/security.ts).                                    *)
(***************************************************************************)
EXTENDS Integers, Sequences, FiniteSets, TLC

VARIABLES
    nodeEnv,        \* process.env.NODE_ENV ("unset" when the variable is absent)
    pc,             \* position of the startServer control flow
    serverVar,      \* startServer's `server` variable is assigned (server.ts:308,312)
    registered,     \* names of the plugins registered on the instance
    dbConn,         \* the PrismaClient connection: "none" | "open" | "closed"
    handlersOn,     \* the process.on(signal) handlers are installed
    listening,      \* the HTTP listener is bound
    closing,        \* server.close() has been called (no new connection accepted)
    closeState,     \* the close procedure: "idle" | "running" | "done" | "failed"
    closeWaiters,   \* callers awaiting server.close(), in call order
    handlers,       \* signal-handler invocations: sequence of records
    now,            \* the clock, in ms
    exited,         \* process.exit has been called
    exitCode,       \* the status given to process.exit
    inflight,       \* requests accepted and not yet answered
    accepted,       \* requests accepted since start
    served,         \* requests answered since start
    hist,           \* history of the run (what failed, what was attempted)
    store,          \* the rate limiter's in-memory map: client key -> window
    resp,           \* the last request handled and the response it got
    dbWrites,       \* writes done by the handler of the protected route
    reqCount,       \* requests handled
    dbUp,           \* the database answers queries
    dbFaulted,      \* the database has failed to answer since the start
    healthRecords,  \* number of rows of the health_checks table
    users,          \* rows of the users table, in order of creation
    properties,     \* rows of the properties table, in order of creation
    jobs,           \* requests to the routes with awaits: arrived, their stage and reply
    out,            \* the last reply of the not-found handler or the error handler
    regLog,         \* the plugin registrations attempted on the instance, in order
    JWT_SECRET      \* process.env.JWT_SECRET

lifeVars == <<nodeEnv, pc, serverVar, registered, dbConn, handlersOn, listening,
              closing, closeState, closeWaiters, handlers, now, exited, exitCode,
              inflight, accepted, served, hist>>

secVars == <<store, resp, dbWrites, reqCount>>

appVars == <<dbUp, dbFaulted, healthRecords, users, properties, jobs, out>>

regVars == <<regLog, JWT_SECRET>>

vars == <<lifeVars, secVars, appVars, regVars>>

----------------------------------------------------------------------------
(* Bounds of the model *)

MaxSignals == 2         \* termination signals delivered in one run
MaxInflight == 2        \* requests in flight at once
MaxAccepted == 2        \* requests accepted in one run
TickMs == 5000          \* largest step of the clock
Horizon == 15000        \* the clock stops advancing here
MaxRequests == 1        \* requests handled in one run of the request checks
LateMs == 59600         \* a step of the clock that ends late in a rate-limit window
MaxSpoofed == 2         \* requests counted on a key other than the peer's address
MaxJobs == 2            \* requests sent to the health and user routes in one run
MaxArrivals == 1        \* requests that arrive at a serving process in one run

----------------------------------------------------------------------------
(* Program constants *)

\* server.ts:328  setTimeout(..., 10000)
shutdownTimeout == 10000

\* server.ts:315
shutdownSignals == {"SIGINT", "SIGTERM", "SIGHUP"}

EnvValues == {"unset", "development", "production", "test"}

\* server.ts:17-18  NODE_ENV = process.env.NODE_ENV ?? 'development'
NODE_ENV == IF nodeEnv = "unset" THEN "development" ELSE nodeEnv
IS_DEV == NODE_ENV = "development"

\* The startup steps that can fail: $connect, the two $queryRaw probes of
\* prismaPlugin, the onReady probe, and the bind of server.listen.
StartupSteps == {"connect", "version", "perf", "ready", "listen"}

Min2(a, b) == IF a <= b THEN a ELSE b

----------------------------------------------------------------------------
(* Requests as securityPlugin sees them *)

\* An optional JS string (a header, a cookie, a query parameter).  Text the
\* plugin cuts or compares character by character is a sequence of characters.
None == [some |-> FALSE, v |-> <<>>]
Some(x) == [some |-> TRUE, v |-> x]
\* JS truthiness of an optional string: present and not empty.
Truthy(o) == o.some /\ o.v # <<>>

\* JWT strings a client may present, and what decoding and checking each
\* against the secret gives (sig, iss, aud, exp in ms): "V" and "W" are valid,
\* "X" expires at TickMs, "S" has a bad signature, "I" a foreign issuer, "A" a
\* foreign audience; anything else ("G") is not a JWT.
JwtTable ==
    [ V |-> [sig |-> TRUE,  iss |-> "logetogo-api", aud |-> "logetogo-app", exp |-> 4 * Horizon],
      W |-> [sig |-> TRUE,  iss |-> "logetogo-api", aud |-> "logetogo-app", exp |-> 4 * Horizon],
      X |-> [sig |-> TRUE,  iss |-> "logetogo-api", aud |-> "logetogo-app", exp |-> TickMs],
      S |-> [sig |-> FALSE, iss |-> "logetogo-api", aud |-> "logetogo-app", exp |-> 4 * Horizon],
      I |-> [sig |-> TRUE,  iss |-> "someone-else", aud |-> "logetogo-app", exp |-> 4 * Horizon],
      A |-> [sig |-> TRUE,  iss |-> "logetogo-api", aud |-> "someone-else", exp |-> 4 * Horizon] ]

BearerPrefix == <<"B", "e", "a", "r", "e", "r", " ">>
LowerBearerPrefix == <<"b", "e", "a", "r", "e", "r", " ">>

\* Values of the Authorization header, the authToken cookie and the token
\* query parameter that the model draws requests from.
AuthorizationValues ==
    { None, Some(BearerPrefix \o <<"V">>), Some(BearerPrefix \o <<"X">>),
      Some(BearerPrefix \o <<"S">>), Some(BearerPrefix),
      Some(LowerBearerPrefix \o <<"V">>) }
CookieValues == { None, Some(<<>>), Some(<<"W">>), Some(<<"I">>) }
QueryTokenValues == { None, Some(<<"V">>), Some(<<"A">>), Some(<<"G">>) }

\* URLs, as the sequence of their parts ("/", a path segment, "?", a query).
UrlHealth == <<"/", "health">>
UrlSystemHealth == <<"/", "api", "/", "system", "/", "health">>
UrlValues ==
    { UrlHealth, UrlHealth \o <<"?", "probe=1">>, UrlHealth \o <<"/">>,
      <<"/", "HEALTH">>,
      UrlSystemHealth, UrlSystemHealth \o <<"?", "ts=1">>,
      <<"/", "api", "/", "system", "/", "info">>,
      <<"/", "api", "/", "me">>, <<"/", "nope">> }

\* Addresses (text the plugin only tests for emptiness is kept in one piece).
PeerValues == { <<"10.0.0.1">> }
ForwardedValues == { None, Some(<<>>), Some(<<"6.6.6.6">>) }
RealIpValues == { None, Some(<<>>), Some(<<"7.7.7.7">>) }

\* Methods, Origin headers and Access-Control-Request-Method headers.
MethodValues == { "GET", "OPTIONS" }
OriginValues == { None, Some(<<"http://localhost:3000">>), Some(<<"https://logetogo.tg">>) }
RequestMethodValues == { None, Some(<<"GET">>) }

\* A GET request without any of the headers the plugin reads.
PlainRequest ==
    [ method |-> "GET", url |-> <<"/", "api", "/", "system", "/", "info">>,
      peer |-> <<"10.0.0.1">>, origin |-> None, requestMethod |-> None,
      xForwardedFor |-> None, xRealIp |-> None,
      authorization |-> None, authToken |-> None, queryToken |-> None ]

RequestShapes ==
    [ method : MethodValues, url : UrlValues, peer : PeerValues,
      origin : OriginValues, requestMethod : RequestMethodValues,
      xForwardedFor : ForwardedValues, xRealIp : RealIpValues,
      authorization : AuthorizationValues, authToken : CookieValues,
      queryToken : QueryTokenValues ]

NoCredentials(r) == r.authorization = None /\ r.authToken = None /\ r.queryToken = None
NoProxyHeaders(r) == r.xForwardedFor = None /\ r.xRealIp = None

\* The requests the model sends: every combination of credentials on the
\* protected route, every combination of proxy headers on an open route,
\* every URL without either, and GET and OPTIONS requests with every
\* combination of the cross-origin headers on a health route and on the
\* protected route.
Requests ==
    { [PlainRequest EXCEPT !.url = <<"/", "api", "/", "me">>,
                           !.authorization = a, !.authToken = c, !.queryToken = q] :
        a \in AuthorizationValues, c \in CookieValues, q \in QueryTokenValues }
    \cup { [PlainRequest EXCEPT !.xForwardedFor = f, !.xRealIp = i] :
             f \in ForwardedValues, i \in RealIpValues }
    \cup { [PlainRequest EXCEPT !.url = u] : u \in UrlValues }
    \cup { [PlainRequest EXCEPT !.method = m, !.url = u, !.origin = o, !.requestMethod = a] :
             m \in MethodValues, u \in {UrlSystemHealth, <<"/", "api", "/", "me">>},
             o \in OriginValues, a \in RequestMethodValues }

\* security.ts:27-28
isDev == nodeEnv = "development"
isProd == nodeEnv = "production"

----------------------------------------------------------------------------
(* Routing: createServerOptions and the routes *)

\* server.ts:32  caseSensitive: false  (the router lower-cases the path)
toLowerCase(w) == IF w = "HEALTH" THEN "health" ELSE w

\* The path the router matches: the URL without its query string, in lower
\* case (server.ts:32) and without a trailing slash (server.ts:31).
routePath(url) ==
    LET cut == IF \E i \in 1..Len(url) : url[i] = "?"
               THEN (CHOOSE i \in 1..Len(url) :
                        url[i] = "?" /\ \A j \in 1..(i - 1) : url[j] # "?") - 1
               ELSE Len(url)
        path == [i \in 1..cut |-> toLowerCase(url[i])]
    IN  IF Len(path) > 1 /\ path[Len(path)] = "/"
        THEN SubSeq(path, 1, Len(path) - 1)
        ELSE path

\* server.ts:93 (/health) and routes/system.ts:17 under the prefix /api/system
\* (routes/index.ts:26)
HealthRoutes == { UrlHealth, UrlSystemHealth }

\* A route declared with preHandler: fastify.authenticate, whose handler
\* writes to the database.
ProtectedRoutes == { <<"/", "api", "/", "me">> }

OpenRoutes == HealthRoutes \cup { <<"/", "api", "/", "system", "/", "info">> }

----------------------------------------------------------------------------
(* securityPlugin: the origin policy *)

\* security.ts:43-48
AllowedOrigins ==
    { <<"https://logetogo.tg">>, <<"https://www.logetogo.tg">>,
      <<"https://admin.logetogo.tg">>, <<"https://app.logetogo.tg">> }

\* security.ts:65
methods == <<"GET", "POST", "PUT", "DELETE", "PATCH", "OPTIONS">>

\* security.ts:41-48  origin: isDev ? true : [...]
isRequestOriginAllowed(r) == r.origin.some /\ (isDev \/ r.origin.v \in AllowedOrigins)

\* A CORS hook that leaves OPTIONS requests to the routes.
cors_PassesPreflight(r) ==
    [ preflight |-> FALSE, status |-> 0,
      allowOrigin |-> IF isRequestOriginAllowed(r) THEN r.origin ELSE None,
      allowMethods |-> None ]

\* security.ts:34-69  what the CORS hook does with a request: it sets
\* access-control-allow-origin for an allowed origin, and it answers an OPTIONS
\* request itself, with 204 and the allowed methods when the request names an
\* origin and a method, and with 400 otherwise.
cors(r) ==
    LET preflight == r.method = "OPTIONS"
        wellFormed == r.origin.some /\ r.requestMethod.some
    IN  [ preflight |-> preflight,
          status |-> IF ~preflight THEN 0 ELSE IF wellFormed THEN 204 ELSE 400,
          allowOrigin |-> IF isRequestOriginAllowed(r) THEN r.origin ELSE None,
          allowMethods |-> IF preflight /\ wellFormed THEN Some(methods) ELSE None ]

----------------------------------------------------------------------------
(* securityPlugin: the rate limiter *)

\* security.ts:152  max: isDev ? 1000 : 100
maxDev == 1000
maxOther == 100
max == IF isDev THEN maxDev ELSE maxOther

\* security.ts:153  timeWindow: '1 minute', in ms
timeWindow == 60000

\* server.ts:30  trustProxy: true: request.ip is the address the
\* x-forwarded-for header gives, and the socket's peer without that header.
requestIp(r) == IF Truthy(r.xForwardedFor) THEN r.xForwardedFor.v ELSE r.peer

\* A key generator that prefers x-real-ip to x-forwarded-for.
keyGenerator_RealIpFirst(r) ==
    IF Truthy(r.xRealIp) THEN r.xRealIp.v
    ELSE IF Truthy(r.xForwardedFor) THEN r.xForwardedFor.v
    ELSE r.peer

\* security.ts:156-161
keyGenerator(r) ==
    IF Truthy(r.xForwardedFor) THEN r.xForwardedFor.v
    ELSE IF Truthy(r.xRealIp) THEN r.xRealIp.v
    ELSE requestIp(r)

\* security.ts:196-199
skip(r) == r.url = UrlHealth \/ r.url = UrlSystemHealth

\* Math.round(ms / 1000) for ms >= 0
roundSeconds(ms) == (ms + 500) \div 1000

\* security.ts:164-182  (the body's numeric code 429 is written "429")
errorResponseBuilder(r, ttl) ==
    [ code |-> "429", error |-> "Too Many Requests",
      retryAfter |-> roundSeconds(ttl), limit |-> max, remaining |-> 0 ]

ClientKeys == PeerValues \cup {<<"6.6.6.6">>, <<"7.7.7.7">>}
EmptyStore == [k \in ClientKeys |-> [current |-> 0, iterationStartMs |-> 0]]

\* The limiter's window for a key at time t: a first request, or one after the
\* window has elapsed, starts a window; any other increments its count.
incr(entry, t) ==
    IF entry.current = 0 \/ entry.iterationStartMs + timeWindow <= t
    THEN [current |-> 1, iterationStartMs |-> t]
    ELSE [entry EXCEPT !.current = @ + 1]

ttlOf(entry, t) == timeWindow - (t - entry.iterationStartMs)

\* security.ts:140-200  what the limiter does with a request
rateLimit(r, st, t) ==
    IF skip(r)
    THEN [skipped |-> TRUE, key |-> keyGenerator(r), store |-> st,
          allowed |-> TRUE, ttl |-> 0]
    ELSE LET key == keyGenerator(r)
             e == incr(st[key], t)
         IN  [skipped |-> FALSE, key |-> key, store |-> [st EXCEPT ![key] = e],
              allowed |-> e.current <= max, ttl |-> ttlOf(e, t)]

----------------------------------------------------------------------------
(* securityPlugin: authentication *)

startsWith(str, prefix) ==
    Len(str) >= Len(prefix) /\ SubSeq(str, 1, Len(prefix)) = prefix
substring(str, from) == SubSeq(str, from + 1, Len(str))

\* An extraction that reads the query parameter in every mode.
extractToken_QueryInEveryMode(r) ==
    IF Truthy(r.authorization) /\ startsWith(r.authorization.v, BearerPrefix)
    THEN Some(substring(r.authorization.v, 7))
    ELSE IF Truthy(r.authToken)
    THEN r.authToken
    ELSE IF r.queryToken.some
    THEN r.queryToken
    ELSE None

\* security.ts:238-261
extractToken(r) ==
    IF Truthy(r.authorization) /\ startsWith(r.authorization.v, BearerPrefix)
    THEN Some(substring(r.authorization.v, 7))
    ELSE IF Truthy(r.authToken)
    THEN r.authToken
    ELSE IF isDev /\ r.queryToken.some
    THEN r.queryToken
    ELSE None

\* A verification that does not look at the expiry.
jwtVerify_IgnoresExpiry(r, t) ==
    LET tok == extractToken(r) IN
    /\ Truthy(tok)
    /\ Len(tok.v) = 1 /\ tok.v[1] \in DOMAIN JwtTable
    /\ LET jwt == JwtTable[tok.v[1]] IN
       /\ jwt.sig
       /\ jwt.iss = "logetogo-api"
       /\ jwt.aud = "logetogo-app"

\* security.ts:233-235 and request.jwtVerify (security.ts:280): the extracted
\* token must be present, decode, carry a good signature, the issuer
\* 'logetogo-api' and the audience 'logetogo-app', and not have expired.
jwtVerify(r, t) ==
    LET tok == extractToken(r) IN
    /\ Truthy(tok)
    /\ Len(tok.v) = 1 /\ tok.v[1] \in DOMAIN JwtTable
    /\ LET jwt == JwtTable[tok.v[1]] IN
       /\ jwt.sig
       /\ jwt.iss = "logetogo-api"
       /\ jwt.aud = "logetogo-app"
       /\ t < jwt.exp

\* No reply has been sent.
NoReply == [sent |-> FALSE, threw |-> FALSE, status |-> 0, code |-> "", error |-> "", message |-> "",
            retryAfter |-> 0, limit |-> 0, remaining |-> 0,
            allowOrigin |-> [some |-> FALSE, v |-> <<>>],
            allowMethods |-> [some |-> FALSE, v |-> <<>>]]

\* security.ts:278-296  the authenticate decorator: the reply it sends, if any
authenticate(r, t) ==
    IF jwtVerify(r, t)
    THEN NoReply
    ELSE [NoReply EXCEPT !.sent = TRUE, !.status = 401,
                         !.error = "Non autorisé",
                         !.message = "Token manquant ou invalide",
                         !.code = "UNAUTHORIZED"]

NoResponse ==
    [ handled |-> FALSE, req |-> CHOOSE r \in Requests : TRUE, at |-> 0,
      route |-> <<>>, key |-> <<>>, skipped |-> FALSE, countBefore |-> 0,
      ttl |-> 0, token |-> None, trace |-> <<>>, reply |-> NoReply,
      handlerRan |-> FALSE, writesBefore |-> 0 ]

----------------------------------------------------------------------------
(* createServer: the not-found handler and the error handler *)

\* The part of the URL before its query string.
pathOf(url) ==
    IF \E i \in 1..Len(url) : url[i] = "?"
    THEN SubSeq(url, 1, (CHOOSE i \in 1..Len(url) :
                            url[i] = "?" /\ \A j \in 1..(i - 1) : url[j] # "?") - 1)
    ELSE url

\* No reply of the two handlers yet.
NoOutput ==
    [ by |-> "none", status |-> 0, body |-> [error |-> ""], log |-> [level |-> "none"],
      method |-> "", url |-> <<>>, failure |-> [some |-> FALSE, v |-> <<>>] ]

\* A not-found handler that lists the known routes in every mode.
notFoundHandler_AlwaysListsRoutes(method, url) ==
    [ by |-> "notFound",
      status |-> 404,
      body |-> [ error |-> "Not Found",
                 message |-> <<"Route ", method, " ">> \o url \o <<" non trouvée">>,
                 statusCode |-> 404,
                 timestamp |-> now,
                 availableRoutes |-> Some(<<"GET /", "GET /health">>) ],
      log |-> [level |-> "warn", stack |-> None],
      method |-> method, url |-> url, failure |-> None ]

\* server.ts:200-226  the reply to a request that matches no route
notFoundHandler(method, url) ==
    [ by |-> "notFound",
      status |-> 404,
      body |-> [ error |-> "Not Found",
                 message |-> <<"Route ", method, " ">> \o url \o <<" non trouvée">>,
                 statusCode |-> 404,
                 timestamp |-> now,
                 availableRoutes |-> IF IS_DEV THEN Some(<<"GET /", "GET /health">>) ELSE None ],
      log |-> [level |-> "warn", stack |-> None],
      method |-> method, url |-> url, failure |-> None ]

\* server.ts:262-264
genericMessage == <<"Une erreur interne est survenue">>

\* Failures a route can raise: the status code, message, stack and validation
\* detail they carry (None where the failure carries none).
StatusCodeValues == { None, Some(400), Some(404), Some(422), Some(500), Some(503) }
MessageValues == { <<"m1">>, <<"m2 at /srv/app/db.ts:12">> }
StackValues == { <<"Error: m", "at f (a.ts:1)">>, <<"Error: m", "at g (b.ts:2)">> }
ValidationValues ==
    { None, Some(<<[instancePath |-> "/email", keyword |-> "format"],
                   [instancePath |-> "/firstName", keyword |-> "minLength"]>>) }
Failures ==
    [ name : {"Error"}, statusCode : StatusCodeValues, message : MessageValues,
      stack : StackValues, validation : ValidationValues ]

\* An error handler that answers 400 to a failure without a status code.
errorHandler_DefaultsTo400(error, method, url) ==
    LET statusCode == IF error.statusCode.some THEN error.statusCode.v ELSE 400
        safeMessage == IF IS_DEV \/ statusCode < 500 THEN error.message ELSE genericMessage
    IN  [ by |-> "error",
          status |-> statusCode,
          body |-> [ error |-> error.name,
                     message |-> safeMessage,
                     statusCode |-> statusCode,
                     timestamp |-> now,
                     stack |-> IF IS_DEV /\ statusCode >= 500 THEN Some(error.stack) ELSE None,
                     validation |-> IF IS_DEV /\ error.validation.some
                                    THEN error.validation ELSE None ],
          log |-> [ level |-> IF statusCode >= 500 THEN "error" ELSE "warn",
                    error |-> error.message,
                    stack |-> IF statusCode >= 500 THEN Some(error.stack) ELSE None,
                    validation |-> error.validation ],
          method |-> method, url |-> url, failure |-> Some(error) ]

\* An error handler that passes the message of every failure through.
errorHandler_PassesMessage(error, method, url) ==
    LET statusCode == IF error.statusCode.some THEN error.statusCode.v ELSE 500
        safeMessage == error.message
    IN  [ by |-> "error",
          status |-> statusCode,
          body |-> [ error |-> error.name,
                     message |-> safeMessage,
                     statusCode |-> statusCode,
                     timestamp |-> now,
                     stack |-> IF IS_DEV /\ statusCode >= 500 THEN Some(error.stack) ELSE None,
                     validation |-> IF IS_DEV /\ error.validation.some
                                    THEN error.validation ELSE None ],
          log |-> [ level |-> IF statusCode >= 500 THEN "error" ELSE "warn",
                    error |-> error.message,
                    stack |-> IF statusCode >= 500 THEN Some(error.stack) ELSE None,
                    validation |-> error.validation ],
          method |-> method, url |-> url, failure |-> Some(error) ]

\* server.ts:229-283  the reply to a failure raised while handling a request
errorHandler(error, method, url) ==
    LET statusCode == IF error.statusCode.some THEN error.statusCode.v ELSE 500
        safeMessage == IF IS_DEV \/ statusCode < 500 THEN error.message ELSE genericMessage
    IN  [ by |-> "error",
          status |-> statusCode,
          body |-> [ error |-> error.name,
                     message |-> safeMessage,
                     statusCode |-> statusCode,
                     timestamp |-> now,
                     stack |-> IF IS_DEV /\ statusCode >= 500 THEN Some(error.stack) ELSE None,
                     validation |-> IF IS_DEV /\ error.validation.some
                                    THEN error.validation ELSE None ],
          log |-> [ level |-> IF statusCode >= 500 THEN "error" ELSE "warn",
                    error |-> error.message,
                    stack |-> IF statusCode >= 500 THEN Some(error.stack) ELSE None,
                    validation |-> error.validation ],
          method |-> method, url |-> url, failure |-> Some(error) ]

\* The database and the routes before the first request.
\* Values of process.env.JWT_SECRET: not set, or set to a secret.
JwtSecretValues == {None, Some(<<"env-secret">>)}

\* An entry of regLog: `await server.register(plugin)` resolved (ok) or threw.
Registration(p, ok) == [plugin |-> p, ok |-> ok]

\* The registrations behind an instance on which the plugins of ps (a
\* sequence) were registered in order, with JWT_SECRET set.
Registered(ps) ==
    /\ regLog = [i \in 1..Len(ps) |-> Registration(ps[i], TRUE)]
    /\ JWT_SECRET = Some(<<"env-secret">>)

AppIdle ==
    /\ dbUp = TRUE
    /\ dbFaulted = FALSE
    /\ healthRecords = 0
    /\ users = <<>>
    /\ properties = <<>>
    /\ jobs = <<>>
    /\ out = NoOutput

----------------------------------------------------------------------------
(* Process state *)

\* A call of process.exit ends the process: nothing runs afterwards.
Alive == ~exited

\* Mutant: the status is recorded (process.exitCode = code) but the process is
\* not ended.
processExit_SetsExitCodeOnly(code, h) ==
    /\ exited' = exited
    /\ exitCode' = code
    /\ hist' = [h EXCEPT !.exitCalls = @ + 1]

processExit(code, h) ==
    /\ exited' = TRUE
    /\ exitCode' = code
    /\ hist' = [h EXCEPT !.exitCalls = @ + 1]

Init ==
    /\ nodeEnv \in EnvValues
    /\ pc = "connect"
    /\ serverVar = FALSE
    /\ registered = {}
    /\ dbConn = "none"
    /\ handlersOn = FALSE
    /\ listening = FALSE
    /\ closing = FALSE
    /\ closeState = "idle"
    /\ closeWaiters = <<>>
    /\ handlers = <<>>
    /\ now = 0
    /\ exited = FALSE
    /\ exitCode = 0
    /\ inflight = 0
    /\ accepted = 0
    /\ served = 0
    /\ hist = [failed |-> "none", attempts |-> [s \in StartupSteps |-> 0],
               exitCalls |-> 0, discAttempted |-> FALSE, discOk |-> FALSE,
               timerFired |-> FALSE, readyAtSignal |-> FALSE, initAtSignal |-> FALSE,
               acceptedAtSignal |-> 0]
    /\ store = EmptyStore
    /\ resp = NoResponse
    /\ dbWrites = 0
    /\ reqCount = 0
    /\ AppIdle
    /\ regLog = <<>>
    /\ JWT_SECRET \in JwtSecretValues

----------------------------------------------------------------------------
(* startServer, createServer and prismaPlugin *)

\* The waiter id of the startServer control flow in closeWaiters; handler
\* invocations are numbered from 1.
MainFlow == 0

attempt(step) == [hist EXCEPT !.attempts[step] = @ + 1]
failure(step) == [attempt(step) EXCEPT !.failed = step]

\* server.close(): the first call starts the close procedure, which stops the
\* listener from accepting; every caller awaits its completion.
serverClose(who) ==
    /\ closeWaiters' = Append(closeWaiters, who)
    /\ closing' = TRUE
    /\ closeState' = IF closeState = "idle" THEN "running" ELSE closeState

\* server.ts:368-403  catch (startupError): a rejected step lands in the catch
\* block, which closes the server when the `server` variable is assigned
\* (awaiting the close) and otherwise calls process.exit(1) at once.
startupCatch(step) ==
    IF serverVar
    THEN /\ serverClose(MainFlow)
         /\ pc' = "cleanup"
         /\ hist' = failure(step)
         /\ UNCHANGED <<exited, exitCode>>
    ELSE /\ processExit(1, failure(step))
         /\ pc' = "exit"
         /\ UNCHANGED <<closeWaiters, closing, closeState>>

\* prisma.ts:75  await prisma.$connect()
prismaConnect(ok) ==
    /\ Alive /\ pc = "connect"
    /\ IF ok
       THEN /\ dbConn' = "open"
            /\ pc' = "version"
            /\ hist' = attempt("connect")
            /\ UNCHANGED <<exited, exitCode, closeWaiters, closing, closeState>>
       ELSE /\ dbConn' = dbConn
            /\ startupCatch("connect")
    /\ UNCHANGED <<secVars, appVars, regVars>>
    /\ UNCHANGED <<nodeEnv, serverVar, registered, handlersOn, listening,
                   handlers, now, inflight, accepted, served>>

\* prisma.ts:79  SELECT version()   and   prisma.ts:88  SELECT 1 as test;
\* a failure is rethrown by prisma.ts:122 and by createServer (server.ts:300).
prismaProbe(ok) ==
    /\ Alive /\ pc \in {"version", "perf"}
    /\ IF ok
       THEN /\ pc' = IF pc = "version" THEN "perf" ELSE "decorate"
            /\ hist' = attempt(pc)
            /\ UNCHANGED <<exited, exitCode, closeWaiters, closing, closeState>>
       ELSE startupCatch(pc)
    /\ UNCHANGED <<secVars, appVars, regVars>>
    /\ UNCHANGED <<nodeEnv, serverVar, registered, dbConn, handlersOn, listening,
                   handlers, now, inflight, accepted, served>>

\* The plugins createServer registers on the instance (server.ts:90).
createServerPlugins == {"prisma"}

\* prisma.ts:126-160 (decorate, onReady and onClose hooks), then the rest of
\* createServer (routes and handlers, server.ts:93-287) and the assignment
\* `server = await createServer()` (server.ts:312).
createServer ==
    /\ Alive /\ pc = "decorate"
    /\ registered' = registered \cup createServerPlugins
    /\ regLog' = Append(regLog, Registration("prisma", TRUE))
    /\ serverVar' = TRUE
    /\ pc' = "signals"
    /\ UNCHANGED <<secVars, appVars, JWT_SECRET>>
    /\ UNCHANGED <<nodeEnv, dbConn, handlersOn, listening, closing, closeState,
                   closeWaiters, handlers, now, exited, exitCode, inflight,
                   accepted, served, hist>>

\* server.ts:317-339  shutdownSignals.forEach(signal => process.on(signal, ...))
installSignalHandlers ==
    /\ Alive /\ pc = "signals"
    /\ handlersOn' = TRUE
    /\ pc' = "ready_hook"
    /\ UNCHANGED <<secVars, appVars, regVars>>
    /\ UNCHANGED <<nodeEnv, serverVar, registered, dbConn, listening, closing,
                   closeState, closeWaiters, handlers, now, exited, exitCode,
                   inflight, accepted, served, hist>>

\* server.listen (server.ts:342) first runs the onReady hook of prismaPlugin
\* (prisma.ts:129-139), which throws when the probe fails.
onReadyHook(ok) ==
    /\ Alive /\ pc = "ready_hook"
    /\ IF ok
       THEN /\ pc' = "bind"
            /\ hist' = attempt("ready")
            /\ UNCHANGED <<exited, exitCode, closeWaiters, closing, closeState>>
       ELSE startupCatch("ready")
    /\ UNCHANGED <<secVars, appVars, regVars>>
    /\ UNCHANGED <<nodeEnv, serverVar, registered, dbConn, handlersOn, listening,
                   handlers, now, inflight, accepted, served>>

\* server.ts:342-345  the bind of server.listen({port, host})
listen(ok) ==
    /\ Alive /\ pc = "bind"
    /\ IF ok
       THEN /\ listening' = TRUE
            /\ pc' = "ready"
            /\ hist' = attempt("listen")
            /\ UNCHANGED <<exited, exitCode, closeWaiters, closing, closeState>>
       ELSE /\ listening' = listening
            /\ startupCatch("listen")
    /\ UNCHANGED <<secVars, appVars, regVars>>
    /\ UNCHANGED <<nodeEnv, serverVar, registered, dbConn, handlersOn,
                   handlers, now, inflight, accepted, served>>

----------------------------------------------------------------------------
(* Signal handlers and the close procedure *)

\* server.ts:318-330  the handler arms its timer and calls server.close().
signalHandler(sig) ==
    /\ Alive /\ handlersOn
    /\ Len(handlers) < MaxSignals
    /\ serverVar                               \* if (!server) return
    /\ handlers' = Append(handlers, [signal |-> sig, at |-> now,
                                      deadline |-> now + shutdownTimeout,
                                      timer |-> "armed"])
    /\ serverClose(Len(handlers) + 1)
    /\ hist' = IF handlers = <<>>
               THEN [hist EXCEPT !.readyAtSignal = (pc = "ready"),
                                 !.initAtSignal = (pc # "ready"),
                                 !.acceptedAtSignal = accepted]
               ELSE hist
    /\ UNCHANGED <<secVars, appVars, regVars>>
    /\ UNCHANGED <<nodeEnv, pc, serverVar, registered, dbConn, handlersOn,
                   listening, now, exited, exitCode, inflight, accepted, served>>

\* Mutant: the close completes without waiting for the in-flight requests.
closeFinish_NoDrain(discOk, ok) ==
    /\ Alive /\ closeState = "running"
    /\ dbConn' = IF discOk THEN "closed" ELSE dbConn
    /\ hist' = [hist EXCEPT !.discAttempted = TRUE, !.discOk = discOk]
    /\ listening' = FALSE
    /\ closeState' = IF ok THEN "done" ELSE "failed"
    /\ UNCHANGED <<secVars, appVars, regVars>>
    /\ UNCHANGED <<nodeEnv, pc, serverVar, registered, handlersOn, closing,
                   closeWaiters, handlers, now, exited, exitCode, inflight,
                   accepted, served>>

\* The close procedure completes once the in-flight requests have drained: the
\* onClose hook of prismaPlugin runs $disconnect and swallows its error
\* (prisma.ts:142-157); the close itself resolves or rejects.
closeFinish(discOk, ok) ==
    /\ Alive /\ closeState = "running"
    /\ inflight = 0
    /\ dbConn' = IF discOk THEN "closed" ELSE dbConn
    /\ hist' = [hist EXCEPT !.discAttempted = TRUE, !.discOk = discOk]
    /\ listening' = FALSE
    /\ closeState' = IF ok THEN "done" ELSE "failed"
    /\ UNCHANGED <<secVars, appVars, regVars>>
    /\ UNCHANGED <<nodeEnv, pc, serverVar, registered, handlersOn, closing,
                   closeWaiters, handlers, now, exited, exitCode, inflight,
                   accepted, served>>

\* The continuation of the first caller of server.close():
\*   startServer's catch   (server.ts:397-403): process.exit(1) either way;
\*   a signal handler      (server.ts:330-337): clearTimeout and process.exit(0),
\*                                              or process.exit(1) when close threw.
closeResume ==
    /\ Alive /\ closeState \in {"done", "failed"}
    /\ closeWaiters # <<>>
    /\ LET who == Head(closeWaiters) IN
       IF who = MainFlow
       THEN /\ processExit(1, hist)
            /\ pc' = "exit"
            /\ handlers' = handlers
       ELSE /\ pc' = pc
            /\ IF closeState = "done"
               THEN /\ handlers' = [handlers EXCEPT ![who].timer = "cleared"]
                    /\ processExit(0, hist)
               ELSE /\ handlers' = handlers
                    /\ processExit(1, hist)
    /\ closeWaiters' = Tail(closeWaiters)
    /\ UNCHANGED <<secVars, appVars, regVars>>
    /\ UNCHANGED <<nodeEnv, serverVar, registered, dbConn, handlersOn, listening,
                   closing, closeState, now, inflight, accepted, served>>

\* Mutant: the timer's callback logs the timeout and returns.
shutdownTimeoutFires_LogOnly(i) ==
    /\ Alive /\ i \in 1..Len(handlers)
    /\ handlers[i].timer = "armed"
    /\ now >= handlers[i].deadline
    /\ handlers' = [handlers EXCEPT ![i].timer = "fired"]
    /\ hist' = [hist EXCEPT !.timerFired = TRUE]
    /\ UNCHANGED <<secVars, appVars, regVars>>
    /\ UNCHANGED <<nodeEnv, pc, serverVar, registered, dbConn, handlersOn,
                   listening, closing, closeState, closeWaiters, now, inflight,
                   accepted, served, exited, exitCode>>

\* server.ts:325-328  the shutdown timer's callback
shutdownTimeoutFires(i) ==
    /\ Alive /\ i \in 1..Len(handlers)
    /\ handlers[i].timer = "armed"
    /\ now >= handlers[i].deadline
    /\ handlers' = [handlers EXCEPT ![i].timer = "fired"]
    /\ processExit(1, [hist EXCEPT !.timerFired = TRUE])
    /\ UNCHANGED <<secVars, appVars, regVars>>
    /\ UNCHANGED <<nodeEnv, pc, serverVar, registered, dbConn, handlersOn,
                   listening, closing, closeState, closeWaiters, now, inflight,
                   accepted, served>>

ArmedDeadlines == {handlers[i].deadline : i \in {j \in 1..Len(handlers) : handlers[j].timer = "armed"}}

\* Time passes, but not beyond the deadline of an armed timer: its callback
\* runs when it is due.
Tick ==
    /\ Alive /\ now < Horizon
    /\ \A d \in ArmedDeadlines : d > now
    /\ LET next == now + TickMs IN
       now' = IF \E d \in ArmedDeadlines : d < next
              THEN CHOOSE d \in ArmedDeadlines : \A e \in ArmedDeadlines : d <= e
              ELSE next
    /\ UNCHANGED <<secVars, appVars, regVars>>
    /\ UNCHANGED <<nodeEnv, pc, serverVar, registered, dbConn, handlersOn,
                   listening, closing, closeState, closeWaiters, handlers, exited,
                   exitCode, inflight, accepted, served, hist>>

----------------------------------------------------------------------------
(* Requests on the listener *)

\* The listener accepts a connection only while bound and not closing.
acceptRequest ==
    /\ Alive /\ listening /\ ~closing
    /\ inflight < MaxInflight /\ accepted < MaxAccepted
    /\ inflight' = inflight + 1
    /\ accepted' = accepted + 1
    /\ UNCHANGED <<secVars, appVars, regVars>>
    /\ UNCHANGED <<nodeEnv, pc, serverVar, registered, dbConn, handlersOn,
                   listening, closing, closeState, closeWaiters, handlers, now,
                   exited, exitCode, served, hist>>

finishRequest ==
    /\ Alive /\ inflight > 0
    /\ inflight' = inflight - 1
    /\ served' = served + 1
    /\ UNCHANGED <<secVars, appVars, regVars>>
    /\ UNCHANGED <<nodeEnv, pc, serverVar, registered, dbConn, handlersOn,
                   listening, closing, closeState, closeWaiters, handlers, now,
                   exited, exitCode, accepted, hist>>

----------------------------------------------------------------------------
(* The lifecycle phase of the spec's ServerState, read off the process state *)

Phase ==
    IF exited THEN "stopped"
    ELSE IF handlers # <<>> THEN "shutting_down"
    ELSE IF listening THEN "ready"
    ELSE "initializing"

Next ==
    \/ \E ok \in BOOLEAN : prismaConnect(ok)
    \/ \E ok \in BOOLEAN : prismaProbe(ok)
    \/ createServer
    \/ installSignalHandlers
    \/ \E ok \in BOOLEAN : onReadyHook(ok)
    \/ \E ok \in BOOLEAN : listen(ok)
    \/ \E sig \in shutdownSignals : signalHandler(sig)
    \/ \E discOk \in BOOLEAN, ok \in BOOLEAN : closeFinish(discOk, ok)
    \/ closeResume
    \/ \E i \in 1..MaxSignals : shutdownTimeoutFires(i)
    \/ Tick
    \/ acceptRequest
    \/ finishRequest

Spec == Init /\ [][Next]_vars

----------------------------------------------------------------------------
(* A request on an instance with securityPlugin registered *)

KnownRoutes == OpenRoutes \cup ProtectedRoutes

\* A pipeline that verifies the token before it consults the rate limiter.
onRequest_VerifyBeforeLimit(r) ==
    LET co == cors(r)
        rl == IF co.preflight
              THEN [skipped |-> FALSE, key |-> keyGenerator(r), store |-> store,
                    allowed |-> TRUE, ttl |-> 0]
              ELSE rateLimit(r, store, now)
        route == routePath(r.url)
        protected == route \in ProtectedRoutes
        builder == errorResponseBuilder(r, rl.ttl)
        limited == [NoReply EXCEPT !.sent = TRUE, !.status = 429,
                        !.code = builder.code,
                        !.error = builder.error,
                        !.retryAfter = builder.retryAfter,
                        !.limit = builder.limit,
                        !.remaining = builder.remaining]
        verify == ~co.preflight /\ protected
        auth == IF verify THEN authenticate(r, now) ELSE NoReply
        ran == ~co.preflight /\ rl.allowed /\ ~auth.sent /\ route \in KnownRoutes
        reply == IF co.preflight THEN [NoReply EXCEPT !.sent = TRUE, !.status = co.status]
                 ELSE IF auth.sent THEN auth
                 ELSE IF ~rl.allowed THEN limited
                 ELSE [NoReply EXCEPT !.sent = TRUE,
                                      !.status = IF ran THEN 200 ELSE 404]
    IN  /\ store' = rl.store
        /\ dbWrites' = IF ran /\ protected THEN dbWrites + 1 ELSE dbWrites
        /\ resp' = [ handled |-> TRUE, req |-> r, at |-> now, route |-> route,
                     key |-> rl.key, skipped |-> rl.skipped,
                     countBefore |-> store[rl.key].current, ttl |-> rl.ttl,
                     token |-> IF verify THEN extractToken(r) ELSE None,
                     trace |-> <<"cors">>
                               \o (IF co.preflight THEN <<>> ELSE <<"helmet">>)
                               \o (IF verify THEN <<"authenticate">> ELSE <<>>)
                               \o (IF co.preflight THEN <<>> ELSE <<"rateLimit">>)
                               \o (IF ran THEN <<"handler">> ELSE <<>>),
                     reply |-> [reply EXCEPT !.allowOrigin = co.allowOrigin,
                                             !.allowMethods = co.allowMethods],
                     handlerRan |-> ran, writesBefore |-> dbWrites ]

\* The checks run in the order the plugin registers them (security.ts:34, 74,
\* 140), then the route's authenticate preHandler, then its handler.  A reply
\* sent by a check ends the request.
onRequest(r) ==
    LET co == cors(r)
        rl == IF co.preflight
              THEN [skipped |-> FALSE, key |-> keyGenerator(r), store |-> store,
                    allowed |-> TRUE, ttl |-> 0]
              ELSE rateLimit(r, store, now)
        route == routePath(r.url)
        protected == route \in ProtectedRoutes
        builder == errorResponseBuilder(r, rl.ttl)
        limited == [NoReply EXCEPT !.sent = TRUE, !.status = 429,
                        !.code = builder.code,
                        !.error = builder.error,
                        !.retryAfter = builder.retryAfter,
                        !.limit = builder.limit,
                        !.remaining = builder.remaining]
        verify == ~co.preflight /\ rl.allowed /\ protected
        auth == IF verify THEN authenticate(r, now) ELSE NoReply
        ran == ~co.preflight /\ rl.allowed /\ ~auth.sent /\ route \in KnownRoutes
        reply == IF co.preflight THEN [NoReply EXCEPT !.sent = TRUE, !.status = co.status]
                 ELSE IF ~rl.allowed THEN limited
                 ELSE IF auth.sent THEN auth
                 ELSE [NoReply EXCEPT !.sent = TRUE,
                                      !.status = IF ran THEN 200 ELSE 404]
    IN  /\ store' = rl.store
        /\ dbWrites' = IF ran /\ protected THEN dbWrites + 1 ELSE dbWrites
        /\ resp' = [ handled |-> TRUE, req |-> r, at |-> now, route |-> route,
                     key |-> rl.key, skipped |-> rl.skipped,
                     countBefore |-> store[rl.key].current, ttl |-> rl.ttl,
                     token |-> IF verify THEN extractToken(r) ELSE None,
                     trace |-> <<"cors">>
                               \o (IF co.preflight THEN <<>> ELSE <<"helmet", "rateLimit">>)
                               \o (IF verify THEN <<"authenticate">> ELSE <<>>)
                               \o (IF ran THEN <<"handler">> ELSE <<>>),
                     reply |-> [reply EXCEPT !.allowOrigin = co.allowOrigin,
                                             !.allowMethods = co.allowMethods],
                     handlerRan |-> ran, writesBefore |-> dbWrites ]

\* The state of a listening server whose instance has securityPlugin
\* registered (security.ts:346-349), before its first request, just started or
\* up for a while.
ReqInit ==
    /\ nodeEnv \in EnvValues
    /\ pc = "ready"
    /\ serverVar = TRUE
    /\ registered = {"prisma", "security"}
    /\ dbConn = "open"
    /\ handlersOn = TRUE
    /\ listening = TRUE
    /\ closing = FALSE
    /\ closeState = "idle"
    /\ closeWaiters = <<>>
    /\ handlers = <<>>
    /\ now \in {0, TickMs}
    /\ exited = FALSE
    /\ exitCode = 0
    /\ inflight = 0
    /\ accepted = 0
    /\ served = 0
    /\ hist = [failed |-> "none",
               attempts |-> [s \in StartupSteps |-> 1],
               exitCalls |-> 0, discAttempted |-> FALSE, discOk |-> FALSE,
               timerFired |-> FALSE, readyAtSignal |-> FALSE, initAtSignal |-> FALSE,
               acceptedAtSignal |-> 0]
    /\ store = EmptyStore
    /\ resp = NoResponse
    /\ dbWrites = 0
    /\ reqCount = 0
    /\ AppIdle
    /\ Registered(<<"prisma", "security">>)

\* One request, handled from its arrival to its reply.
request(r) ==
    /\ Alive /\ listening /\ ~closing
    /\ reqCount < MaxRequests
    /\ onRequest(r)
    /\ reqCount' = reqCount + 1
    /\ UNCHANGED <<lifeVars, appVars, regVars>>

ReqNext == \E r \in Requests : request(r)

ReqSpec == ReqInit /\ [][ReqNext]_vars

----------------------------------------------------------------------------
(* Bursts of requests against the rate limiter *)

\* Requests of a burst: one route, no credentials, with or without a
\* forwarded-for header.
BurstRequests ==
    { r \in Requests :
        /\ r.method = "GET" /\ r.origin = None
        /\ r.url = <<"/", "api", "/", "system", "/", "info">>
        /\ r.xRealIp = None /\ r.xForwardedFor # Some(<<>>)
        /\ r.authorization = None /\ r.authToken = None /\ r.queryToken = None }

burst(r) ==
    /\ Alive /\ listening /\ ~closing
    /\ LET k == keyGenerator(r) IN
       IF k \in PeerValues
       THEN store[k].current <= max + 1
       ELSE store[k].current < MaxSpoofed
    /\ onRequest(r)
    /\ UNCHANGED <<lifeVars, reqCount, appVars, regVars>>

\* Time passes between two requests of a burst.
windowTick ==
    /\ Alive /\ now + LateMs <= 2 * timeWindow
    /\ now' = now + LateMs
    /\ UNCHANGED <<nodeEnv, pc, serverVar, registered, dbConn, handlersOn,
                   listening, closing, closeState, closeWaiters, handlers, exited,
                   exitCode, inflight, accepted, served, hist>>
    /\ UNCHANGED <<secVars, appVars, regVars>>

RateNext ==
    \/ \E r \in BurstRequests : burst(r)
    \/ windowTick

RateSpec == ReqInit /\ [][RateNext]_vars

----------------------------------------------------------------------------
(* One client probing the protected route with credentials that do not verify *)

InvalidCredentialRequests ==
    { r \in Requests :
        /\ r.method = "GET" /\ r.origin = None /\ r.requestMethod = None
        /\ r.url = <<"/", "api", "/", "me">>
        /\ r.authorization \in {None, Some(BearerPrefix \o <<"S">>)}
        /\ r.authToken = None
        /\ r.queryToken = None }

\* A preflight from an origin outside the allow-list.
ForeignPreflights ==
    { r \in Requests :
        /\ r.method = "OPTIONS" /\ r.url = <<"/", "api", "/", "me">>
        /\ r.origin = Some(<<"http://localhost:3000">>) }

\* The next request of the probing, sent within the window of the first.
probe(r) ==
    /\ Alive /\ listening /\ ~closing
    /\ store[keyGenerator(r)].current <= max + 1
    /\ onRequest(r)
    /\ UNCHANGED <<lifeVars, reqCount, appVars, regVars>>

preflight(r) ==
    /\ Alive /\ listening /\ ~closing
    /\ onRequest(r)
    /\ UNCHANGED <<lifeVars, reqCount, appVars, regVars>>

Probing == \E r \in InvalidCredentialRequests : probe(r)

ProbeNext ==
    \/ Probing
    \/ \E r \in ForeignPreflights : preflight(r)

\* The client keeps sending: a probe that can be sent is eventually sent.
ProbeSpec == ReqInit /\ [][ProbeNext]_vars /\ WF_vars(Probing)

----------------------------------------------------------------------------
(* The routes: /health, /api/system/health, POST /api/test/users *)

\* E-mail addresses as the sequence of their parts, and names.
GoodEmails == { <<"a", "@", "x", ".", "tg">>, <<"b", "@", "x", ".", "tg">> }
EmailValues == GoodEmails \cup { <<"a", "@", "b">>, <<"email-invalide">> }
NameValues == { <<"Test">>, <<>> }

\* The bodies sent to POST /api/test/users: well-formed ones, each with one
\* defect, and one with two defects.
Bodies ==
    { [email |-> e, firstName |-> <<"Test">>, lastName |-> <<"User">>] : e \in EmailValues }
    \cup { [email |-> <<"a", "@", "x", ".", "tg">>, firstName |-> f, lastName |-> l] :
             f \in NameValues, l \in NameValues }
    \cup { [email |-> <<"email-invalide">>, firstName |-> <<>>, lastName |-> <<"User">>] }

\* routes/test.ts:102  format: 'email' of the route's body schema: one "@"
\* with text on both sides.
formatEmail(e) ==
    \E i \in 2..(Len(e) - 1) : e[i] = "@" /\ \A j \in 1..Len(e) : e[j] = "@" => j = i

\* routes/test.ts:9  z.string().email(): as above, and the domain ends with a
\* dot and a top-level name.
zodEmail(e) == formatEmail(e) /\ Len(e) >= 5 /\ e[Len(e) - 1] = "."

\* routes/test.ts:98-108  the errors of the body schema, in the order of its
\* properties
schemaErrors(body) ==
    (IF formatEmail(body.email) THEN <<>>
     ELSE <<[instancePath |-> "/email", keyword |-> "format"]>>)
    \o (IF body.firstName # <<>> THEN <<>>
        ELSE <<[instancePath |-> "/firstName", keyword |-> "minLength"]>>)
    \o (IF body.lastName # <<>> THEN <<>>
        ELSE <<[instancePath |-> "/lastName", keyword |-> "minLength"]>>)

\* routes/test.ts:8-12  the issues createTestUserSchema.parse reports
zodErrors(body) ==
    (IF zodEmail(body.email) THEN <<>>
     ELSE <<[instancePath |-> "/email", keyword |-> "invalid_string"]>>)
    \o (IF body.firstName # <<>> THEN <<>>
        ELSE <<[instancePath |-> "/firstName", keyword |-> "too_small"]>>)
    \o (IF body.lastName # <<>> THEN <<>>
        ELSE <<[instancePath |-> "/lastName", keyword |-> "too_small"]>>)

\* The failure the framework raises for a body that does not match the
\* route's schema: status 400 and the first schema error.
validationFailure(body) ==
    [ name |-> "Error", statusCode |-> Some(400),
      message |-> <<"body", schemaErrors(body)[1].instancePath, schemaErrors(body)[1].keyword>>,
      stack |-> <<"Error: m", "at f (a.ts:1)">>,
      validation |-> Some(<<schemaErrors(body)[1]>>) ]

\* What a reply of these routes can carry; dbAnswered notes whether the
\* database was answering when the reply was made.
NoJobReply ==
    [ status |-> 0, via |-> "none", success |-> "absent", error |-> <<>>,
      details |-> [some |-> FALSE, v |-> <<>>], validation |-> [some |-> FALSE, v |-> <<>>],
      user |-> [some |-> FALSE, v |-> <<>>], property |-> [some |-> FALSE, v |-> <<>>],
      health |-> "", database |-> "", dbAnswered |-> TRUE ]

\* server.ts:136-152  GET /health
rootHealthReply ==
    [NoJobReply EXCEPT !.status = 200, !.via = "handler", !.health = "healthy"]

\* routes/system.ts:54-103  GET /api/system/health
systemHealthReply(dbStatus) ==
    [NoJobReply EXCEPT !.status = 200, !.via = "handler",
                       !.health = IF dbStatus = "connected" THEN "healthy" ELSE "degraded",
                       !.database = dbStatus]

\* The reply the error handler gives, as a reply of a route.
errorReply(e) ==
    LET o == errorHandler(e, "POST", <<"/", "api", "/", "test", "/", "users">>) IN
    [NoJobReply EXCEPT !.status = o.status, !.via = "errorHandler",
                       !.error = o.body.message, !.validation = o.body.validation]

\* A job that has arrived.
Job(kind, body, stage, reply) ==
    [kind |-> kind, body |-> body, stage |-> stage, reply |-> reply]

NoBody == [email |-> <<>>, firstName |-> <<>>, lastName |-> <<>>]

Serving == Alive /\ listening /\ ~closing

\* server.ts:93-152  GET /health: the handler has no await
getHealth ==
    /\ Serving /\ Len(jobs) < MaxJobs
    /\ jobs' = Append(jobs, Job("rootHealth", NoBody, "done",
                                [rootHealthReply EXCEPT !.dbAnswered = dbUp]))
    /\ UNCHANGED <<dbUp, dbFaulted, healthRecords, users, properties, out>>
    /\ UNCHANGED <<lifeVars, secVars, regVars>>

\* routes/system.ts:54-57  GET /api/system/health arrives
getSystemHealth ==
    /\ Serving /\ Len(jobs) < MaxJobs
    /\ jobs' = Append(jobs, Job("systemHealth", NoBody, "probe", NoJobReply))
    /\ UNCHANGED <<dbUp, dbFaulted, healthRecords, users, properties, out>>
    /\ UNCHANGED <<lifeVars, secVars, regVars>>

\* routes/system.ts:59-63  await $queryRaw`SELECT 1`; a failure is caught at
\* routes/system.ts:73-76 and the reply follows without another await
systemHealthProbe(i) ==
    /\ Alive /\ i \in 1..Len(jobs)
    /\ jobs[i].kind = "systemHealth" /\ jobs[i].stage = "probe"
    /\ jobs' = [jobs EXCEPT ![i] =
                   IF dbUp THEN [@ EXCEPT !.stage = "write"]
                   ELSE [@ EXCEPT !.stage = "done",
                                  !.reply = [systemHealthReply("disconnected")
                                                EXCEPT !.dbAnswered = FALSE]]]
    /\ UNCHANGED <<dbUp, dbFaulted, healthRecords, users, properties, out>>
    /\ UNCHANGED <<lifeVars, secVars, regVars>>

\* routes/system.ts:66-71  await healthCheck.create(...), then the reply
systemHealthWrite(i) ==
    /\ Alive /\ i \in 1..Len(jobs)
    /\ jobs[i].kind = "systemHealth" /\ jobs[i].stage = "write"
    /\ healthRecords' = IF dbUp THEN healthRecords + 1 ELSE healthRecords
    /\ jobs' = [jobs EXCEPT ![i] =
                   [@ EXCEPT !.stage = "done",
                             !.reply = [systemHealthReply(IF dbUp THEN "connected"
                                                          ELSE "disconnected")
                                           EXCEPT !.dbAnswered = dbUp]]]
    /\ UNCHANGED <<dbUp, dbFaulted, users, properties, out>>
    /\ UNCHANGED <<lifeVars, secVars, regVars>>

\* A registrar that keeps the routes under /api/test out of production only.
TestRoutesRegistered_OutsideProduction == nodeEnv # "production"

\* routes/index.ts:29  the routes under /api/test are registered in
\* development only
TestRoutesRegistered == nodeEnv = "development"

UrlTestUsers == <<"/", "api", "/", "test", "/", "users">>
UrlTestProperties == <<"/", "api", "/", "test", "/", "properties">>

\* The reply of the not-found handler, as a reply to a request to the routes.
notFoundReply(method, url) ==
    LET o == notFoundHandler(method, url) IN
    [NoJobReply EXCEPT !.status = o.status, !.via = "notFound",
                       !.error = o.body.message, !.dbAnswered = dbUp]

\* routes/test.ts:97-134  POST /api/test/users arrives.  Where the route is
\* not registered the not-found handler answers.  Where it is, the body is
\* checked against the route's schema before the handler, whose first
\* statement parses it with createTestUserSchema; a ZodError is answered at
\* routes/test.ts:150-156.
postUsers(body) ==
    /\ Serving /\ Len(jobs) < MaxJobs
    /\ jobs' = Append(jobs,
          IF ~TestRoutesRegistered
          THEN Job("unroutedUser", body, "done", notFoundReply("POST", UrlTestUsers))
          ELSE IF schemaErrors(body) # <<>>
          THEN Job("createUser", body, "done", errorReply(validationFailure(body)))
          ELSE IF zodErrors(body) # <<>>
          THEN Job("createUser", body, "done",
                   [NoJobReply EXCEPT !.status = 400, !.via = "handler",
                                      !.success = "false",
                                      !.error = <<"Données de validation invalides">>,
                                      !.details = Some(zodErrors(body))])
          ELSE Job("createUser", body, "create", NoJobReply))
    /\ UNCHANGED <<dbUp, dbFaulted, healthRecords, users, properties, out>>
    /\ UNCHANGED <<lifeVars, secVars, regVars>>

\* A store without the unique index on the email column.
userCreate_NoUniqueIndex(i) ==
    /\ Alive /\ i \in 1..Len(jobs)
    /\ jobs[i].kind = "createUser" /\ jobs[i].stage = "create"
    /\ LET taken == FALSE
           row == [id |-> Len(users) + 1, email |-> jobs[i].body.email, createdAt |-> now]
       IN  IF dbUp /\ ~taken
           THEN /\ users' = Append(users, row)
                /\ jobs' = [jobs EXCEPT ![i] =
                               [@ EXCEPT !.stage = "done",
                                         !.reply = [NoJobReply EXCEPT
                                                      !.status = 201, !.via = "handler",
                                                      !.success = "true",
                                                      !.user = Some(<<row>>)]]]
           ELSE /\ users' = users
                /\ jobs' = [jobs EXCEPT ![i] =
                               [@ EXCEPT !.stage = "done",
                                         !.reply = [NoJobReply EXCEPT
                                                      !.status = 500, !.via = "handler",
                                                      !.success = "false",
                                                      !.dbAnswered = dbUp,
                                                      !.error = IF taken /\ dbUp
                                                                THEN <<"Unique constraint failed">>
                                                                ELSE <<"Can't reach database server">>]]]
    /\ UNCHANGED <<dbUp, dbFaulted, healthRecords, properties, out>>
    /\ UNCHANGED <<lifeVars, secVars, regVars>>

\* A handler that hides the store's message behind the generic one.
userCreate_GenericMessage(i) ==
    /\ Alive /\ i \in 1..Len(jobs)
    /\ jobs[i].kind = "createUser" /\ jobs[i].stage = "create"
    /\ LET taken == \E k \in 1..Len(users) : users[k].email = jobs[i].body.email
           row == [id |-> Len(users) + 1, email |-> jobs[i].body.email, createdAt |-> now]
       IN  IF dbUp /\ ~taken
           THEN /\ users' = Append(users, row)
                /\ jobs' = [jobs EXCEPT ![i] =
                               [@ EXCEPT !.stage = "done",
                                         !.reply = [NoJobReply EXCEPT
                                                      !.status = 201, !.via = "handler",
                                                      !.success = "true",
                                                      !.user = Some(<<row>>)]]]
           ELSE /\ users' = users
                /\ jobs' = [jobs EXCEPT ![i] =
                               [@ EXCEPT !.stage = "done",
                                         !.reply = [NoJobReply EXCEPT
                                                      !.status = 500, !.via = "handler",
                                                      !.success = "false",
                                                      !.dbAnswered = dbUp,
                                                      !.error = genericMessage]]]
    /\ UNCHANGED <<dbUp, dbFaulted, healthRecords, properties, out>>
    /\ UNCHANGED <<lifeVars, secVars, regVars>>

\* routes/test.ts:136-167  await prisma.user.create(...): the store inserts the
\* row unless it is unreachable or a row has the same email
\* (migration.sql:41), and the handler answers 201 or, from its catch, 500.
userCreate(i) ==
    /\ Alive /\ i \in 1..Len(jobs)
    /\ jobs[i].kind = "createUser" /\ jobs[i].stage = "create"
    /\ LET taken == \E k \in 1..Len(users) : users[k].email = jobs[i].body.email
           row == [id |-> Len(users) + 1, email |-> jobs[i].body.email, createdAt |-> now]
       IN  IF dbUp /\ ~taken
           THEN /\ users' = Append(users, row)
                /\ jobs' = [jobs EXCEPT ![i] =
                               [@ EXCEPT !.stage = "done",
                                         !.reply = [NoJobReply EXCEPT
                                                      !.status = 201, !.via = "handler",
                                                      !.success = "true",
                                                      !.user = Some(<<row>>)]]]
           ELSE /\ users' = users
                /\ jobs' = [jobs EXCEPT ![i] =
                               [@ EXCEPT !.stage = "done",
                                         !.reply = [NoJobReply EXCEPT
                                                      !.status = 500, !.via = "handler",
                                                      !.success = "false",
                                                      !.dbAnswered = dbUp,
                                                      !.error = IF taken /\ dbUp
                                                                THEN <<"Unique constraint failed">>
                                                                ELSE <<"Can't reach database server">>]]]
    /\ UNCHANGED <<dbUp, dbFaulted, healthRecords, properties, out>>
    /\ UNCHANGED <<lifeVars, secVars, regVars>>

\* The bodies sent to POST /api/test/properties, prices in whole FCFA: the
\* two of tests/routes.test.ts:132-165, a free one, one just below zero, and
\* one with an empty title.
PriceValues == {-1000, -1, 0, 150000}
PropertyBodies ==
    { [title |-> <<"Villa Test">>, description |-> <<"Test">>, price |-> p,
       city |-> <<"Lomé">>] : p \in PriceValues }
    \cup { [title |-> <<>>, description |-> <<"Test">>, price |-> 150000,
            city |-> <<"Lomé">>] }

\* routes/test.ts:175-184  the errors of the body schema, in the order of its
\* properties
propertySchemaErrors(body) ==
    (IF body.title # <<>> THEN <<>>
     ELSE <<[instancePath |-> "/title", keyword |-> "minLength"]>>)
    \o (IF body.description # <<>> THEN <<>>
        ELSE <<[instancePath |-> "/description", keyword |-> "minLength"]>>)
    \o (IF body.price >= 0 THEN <<>>
        ELSE <<[instancePath |-> "/price", keyword |-> "minimum"]>>)
    \o (IF body.city # <<>> THEN <<>>
        ELSE <<[instancePath |-> "/city", keyword |-> "minLength"]>>)

\* The failure the framework raises for a body that does not match the
\* schema of POST /properties, and the reply the error handler makes of it.
propertyValidationReply(body) ==
    LET first == propertySchemaErrors(body)[1]
        e == [ name |-> "Error", statusCode |-> Some(400),
               message |-> <<"body", first.instancePath, first.keyword>>,
               stack |-> <<"Error: m", "at f (a.ts:1)">>,
               validation |-> Some(<<first>>) ]
        o == errorHandler(e, "POST", UrlTestProperties)
    IN  [NoJobReply EXCEPT !.status = o.status, !.via = "errorHandler",
                           !.error = o.body.message, !.validation = o.body.validation]

\* routes/test.ts:171-186  POST /api/test/properties arrives.  Where the route
\* is not registered the not-found handler answers; where it is, the body is
\* checked against the route's schema before the handler runs.
postProperties(body) ==
    /\ Serving /\ Len(jobs) < MaxJobs
    /\ jobs' = Append(jobs,
          IF ~TestRoutesRegistered
          THEN Job("unroutedProperty", body, "done",
                   notFoundReply("POST", UrlTestProperties))
          ELSE IF propertySchemaErrors(body) # <<>>
          THEN Job("createProperty", body, "done", propertyValidationReply(body))
          ELSE Job("createProperty", body, "create", NoJobReply))
    /\ UNCHANGED <<dbUp, dbFaulted, healthRecords, users, properties, out>>
    /\ UNCHANGED <<lifeVars, secVars, regVars>>

\* routes/test.ts:195-218  await prisma.property.create(...) with the price in
\* centimes; the handler answers 201 with the price back in FCFA or, from its
\* catch, 500 with the store's message.
propertyCreate(i) ==
    /\ Alive /\ i \in 1..Len(jobs)
    /\ jobs[i].kind = "createProperty" /\ jobs[i].stage = "create"
    /\ LET row == [id |-> Len(properties) + 1, title |-> jobs[i].body.title,
                   price |-> jobs[i].body.price * 100, city |-> jobs[i].body.city]
       IN  IF dbUp
           THEN /\ properties' = Append(properties, row)
                /\ jobs' = [jobs EXCEPT ![i] =
                               [@ EXCEPT !.stage = "done",
                                         !.reply = [NoJobReply EXCEPT
                                                      !.status = 201, !.via = "handler",
                                                      !.success = "true",
                                                      !.property = Some(<<[row EXCEPT
                                                          !.price = row.price \div 100]>>)]]]
           ELSE /\ properties' = properties
                /\ jobs' = [jobs EXCEPT ![i] =
                               [@ EXCEPT !.stage = "done",
                                         !.reply = [NoJobReply EXCEPT
                                                      !.status = 500, !.via = "handler",
                                                      !.success = "false",
                                                      !.dbAnswered = FALSE,
                                                      !.error = <<"Can't reach database server">>]]]
    /\ UNCHANGED <<dbUp, dbFaulted, healthRecords, users, out>>
    /\ UNCHANGED <<lifeVars, secVars, regVars>>

\* The database stops answering, and answers again.
dbGoesDown ==
    /\ Alive /\ dbUp
    /\ dbUp' = FALSE /\ dbFaulted' = TRUE
    /\ UNCHANGED <<healthRecords, users, properties, jobs, out>>
    /\ UNCHANGED <<lifeVars, secVars, regVars>>

dbComesBack ==
    /\ Alive /\ ~dbUp
    /\ dbUp' = TRUE
    /\ UNCHANGED <<dbFaulted, healthRecords, users, properties, jobs, out>>
    /\ UNCHANGED <<lifeVars, secVars, regVars>>

\* A listening server whose instance has the routes registered
\* (routes/index.ts:26-30), connected to its database.
AppInit ==
    /\ nodeEnv \in EnvValues
    /\ pc = "ready"
    /\ serverVar = TRUE
    /\ registered = {"prisma", "routes"}
    /\ dbConn = "open"
    /\ handlersOn = TRUE
    /\ listening = TRUE
    /\ closing = FALSE
    /\ closeState = "idle"
    /\ closeWaiters = <<>>
    /\ handlers = <<>>
    /\ now = 0
    /\ exited = FALSE
    /\ exitCode = 0
    /\ inflight = 0
    /\ accepted = 0
    /\ served = 0
    /\ hist = [failed |-> "none",
               attempts |-> [s \in StartupSteps |-> 1],
               exitCalls |-> 0, discAttempted |-> FALSE, discOk |-> FALSE,
               timerFired |-> FALSE, readyAtSignal |-> FALSE, initAtSignal |-> FALSE,
               acceptedAtSignal |-> 0]
    /\ store = EmptyStore
    /\ resp = NoResponse
    /\ dbWrites = 0
    /\ reqCount = 0
    /\ AppIdle
    /\ Registered(<<"prisma", "routes">>)

AppNext ==
    \/ getHealth
    \/ getSystemHealth
    \/ \E i \in 1..MaxJobs : systemHealthProbe(i)
    \/ \E i \in 1..MaxJobs : systemHealthWrite(i)
    \/ \E body \in Bodies : postUsers(body)
    \/ \E i \in 1..MaxJobs : userCreate(i)
    \/ dbGoesDown
    \/ dbComesBack

AppSpec == AppInit /\ [][AppNext]_vars

\* The same server, under requests to POST /api/test/properties.
PropNext ==
    \/ \E body \in PropertyBodies : postProperties(body)
    \/ \E i \in 1..MaxJobs : propertyCreate(i)
    \/ dbGoesDown
    \/ dbComesBack

PropSpec == AppInit /\ [][PropNext]_vars

----------------------------------------------------------------------------
(* Requests answered by the not-found handler and the error handler *)

UnmatchedUrls ==
    { <<"/", "nope">>, <<"/", "route-inexistante", "?", "x=1">>,
      <<"/", "api", "/", "test", "/", "error">> }

\* server.ts:200-226  a request that matches no route
unmatched(method, url) ==
    /\ Serving
    /\ out' = notFoundHandler(method, url)
    /\ UNCHANGED <<dbUp, dbFaulted, healthRecords, users, properties, jobs>>
    /\ UNCHANGED <<lifeVars, secVars, regVars>>

\* A failure of a route that brings the process down after the reply.
routeThrows_ExitsProcess(error, method) ==
    /\ Serving
    /\ out' = errorHandler(error, method, <<"/", "api", "/", "system", "/", "info">>)
    /\ processExit(1, hist)
    /\ UNCHANGED <<dbUp, dbFaulted, healthRecords, users, properties, jobs>>
    /\ UNCHANGED <<nodeEnv, pc, serverVar, registered, dbConn, handlersOn, listening,
                   closing, closeState, closeWaiters, handlers, now, inflight,
                   accepted, served>>
    /\ UNCHANGED <<secVars, regVars>>

\* server.ts:229-283  a route raises a failure while handling a request
routeThrows(error, method) ==
    /\ Serving
    /\ out' = errorHandler(error, method, <<"/", "api", "/", "system", "/", "info">>)
    /\ UNCHANGED <<dbUp, dbFaulted, healthRecords, users, properties, jobs>>
    /\ UNCHANGED <<lifeVars, secVars, regVars>>

\* A listening server built by createServer, in any mode.
FaultInit ==
    /\ nodeEnv \in EnvValues
    /\ pc = "ready"
    /\ serverVar = TRUE
    /\ registered = createServerPlugins
    /\ dbConn = "open"
    /\ handlersOn = TRUE
    /\ listening = TRUE
    /\ closing = FALSE
    /\ closeState = "idle"
    /\ closeWaiters = <<>>
    /\ handlers = <<>>
    /\ now \in {0, TickMs}
    /\ exited = FALSE
    /\ exitCode = 0
    /\ inflight = 0
    /\ accepted = 0
    /\ served = 0
    /\ hist = [failed |-> "none",
               attempts |-> [s \in StartupSteps |-> 1],
               exitCalls |-> 0, discAttempted |-> FALSE, discOk |-> FALSE,
               timerFired |-> FALSE, readyAtSignal |-> FALSE, initAtSignal |-> FALSE,
               acceptedAtSignal |-> 0]
    /\ store = EmptyStore
    /\ resp = NoResponse
    /\ dbWrites = 0
    /\ reqCount = 0
    /\ AppIdle
    /\ Registered(<<"prisma">>)

FaultNext ==
    \/ \E m \in {"GET", "POST"}, u \in UnmatchedUrls : unmatched(m, u)
    \/ \E e \in Failures, m \in {"GET", "POST"} : routeThrows(e, m)

FaultSpec == FaultInit /\ [][FaultNext]_vars

----------------------------------------------------------------------------
(* A serving process: per-request faults beside the shutdown procedure *)

\* The limiter's store when the peer has used up the window that began at 0.
FullStore ==
    [EmptyStore EXCEPT ![<<"10.0.0.1">>] = [current |-> max, iterationStartMs |-> 0]]

\* A listening server with the security stack and the routes on its instance
\* and the signal handlers installed, the peer's window untouched or used up.
LiveInit ==
    /\ nodeEnv \in EnvValues
    /\ pc = "ready"
    /\ serverVar = TRUE
    /\ registered = {"prisma", "security", "routes"}
    /\ dbConn = "open"
    /\ handlersOn = TRUE
    /\ listening = TRUE
    /\ closing = FALSE
    /\ closeState = "idle"
    /\ closeWaiters = <<>>
    /\ handlers = <<>>
    /\ now = 0
    /\ exited = FALSE
    /\ exitCode = 0
    /\ inflight = 0
    /\ accepted = 0
    /\ served = 0
    /\ hist = [failed |-> "none",
               attempts |-> [s \in StartupSteps |-> 1],
               exitCalls |-> 0, discAttempted |-> FALSE, discOk |-> FALSE,
               timerFired |-> FALSE, readyAtSignal |-> FALSE, initAtSignal |-> FALSE,
               acceptedAtSignal |-> 0]
    /\ store \in {EmptyStore, FullStore}
    /\ resp = NoResponse
    /\ dbWrites = 0
    /\ reqCount = 0
    /\ AppIdle
    /\ Registered(<<"prisma", "security", "routes">>)

\* Requests that have arrived in the run.
Arrivals == reqCount + Len(jobs) + (IF out = NoOutput THEN 0 ELSE 1)

\* Failures a handler throws without a status code.
HandlerExceptions == { f \in Failures : ~f.statusCode.some /\ ~f.validation.some }

\* Bodies the schema of POST /api/test/users or the handler's parse refuses.
RefusedBodies == { b \in Bodies : schemaErrors(b) # <<>> \/ zodErrors(b) # <<>> }

LiveNext ==
    \/ Arrivals < MaxArrivals /\ \E r \in InvalidCredentialRequests : request(r)
    \/ Arrivals < MaxArrivals /\ \E b \in RefusedBodies : postUsers(b)
    \/ Arrivals < MaxArrivals /\ \E e \in HandlerExceptions : routeThrows(e, "GET")
    \/ Arrivals < MaxArrivals /\ getSystemHealth
    \/ \E i \in 1..MaxJobs : systemHealthProbe(i)
    \/ \E i \in 1..MaxJobs : systemHealthWrite(i)
    \/ dbGoesDown
    \/ dbComesBack
    \/ \E sig \in shutdownSignals : signalHandler(sig)
    \/ \E discOk \in BOOLEAN, ok \in BOOLEAN : closeFinish(discOk, ok)
    \/ closeResume
    \/ \E i \in 1..MaxSignals : shutdownTimeoutFires(i)
    \/ Tick

LiveSpec == LiveInit /\ [][LiveNext]_vars

----------------------------------------------------------------------------
(* Plugin composition: the fastify-plugin wrappers and what each plugin adds *)

\* The plugins of the repository, by the name each gives to fastify-plugin.
Plugins == {"prisma", "security", "swagger", "routes"}

\* The `dependencies` each plugin declares to fastify-plugin: prisma
\* (prisma.ts:164-167), security (security.ts:346-349), swagger
\* (server.ts:810-813), routes (routes/index.ts:46-49).
dependencies(p) ==
    CASE p = "prisma"   -> {}
      [] p = "security" -> {}
      [] p = "swagger"  -> {"security"}
      [] p = "routes"   -> {"prisma"}

\* security.ts:216-223  the secret handed to @fastify/jwt: the environment's
\* when it is set and not empty, else a throw in production and the built-in
\* secret elsewhere.
jwtSecret ==
    IF Truthy(JWT_SECRET) THEN [threw |-> FALSE, secret |-> JWT_SECRET.v]
    ELSE IF isProd THEN [threw |-> TRUE, secret |-> <<>>]
    ELSE [threw |-> FALSE, secret |-> <<"dev-jwt-secret-32-chars-minimum-change">>]

\* The decorators on the instance: `prisma` (prisma.ts:126) and `authenticate`
\* (security.ts:278), each added by its plugin.
decorators ==
    (IF "prisma" \in registered THEN {"prisma"} ELSE {})
        \cup (IF "security" \in registered THEN {"authenticate"} ELSE {})

\* Whether the body of plugin p runs to its end: securityPlugin throws with
\* the secret (security.ts:216-223), prismaPlugin with the database
\* (prisma.ts:75-90).
pluginBody(p) ==
    CASE p = "security" -> ~jwtSecret.threw
      [] p = "prisma"   -> dbUp
      [] OTHER          -> TRUE

UrlApiSchema == <<"/", "api-schema">>
UrlDocs == <<"/", "docs">>
UrlTestDatabase == <<"/", "api", "/", "test", "/", "database">>

\* server.ts:745-799  the GET routes swaggerPlugin adds: the explorer under
\* /docs when `isDev` (server.ts:499), /api-schema always.
swaggerRoutes == {UrlApiSchema} \cup (IF isDev THEN {UrlDocs} ELSE {})

\* routes/index.ts:26-31  the GET routes routesPlugin adds
routesRoutes ==
    {UrlSystemHealth, <<"/", "api", "/", "system", "/", "info">>}
        \cup (IF TestRoutesRegistered THEN {UrlTestDatabase} ELSE {})

\* The GET routes of the instance: those of createServer (server.ts:93, 155)
\* and those of the plugins registered on it.
routeTable ==
    {<<"/">>, UrlHealth}
        \cup (IF "swagger" \in registered THEN swaggerRoutes ELSE {})
        \cup (IF "routes" \in registered THEN routesRoutes ELSE {})

\* `await server.register(p)`: fastify refuses a plugin whose declared
\* dependencies are not all registered, then runs its body; a throw of either
\* rejects the registration and ends the caller's setup.
register(p) ==
    /\ Alive /\ pc = "register"
    /\ \A i \in 1..Len(regLog) : regLog[i].plugin # p
    /\ LET ok == dependencies(p) \subseteq registered /\ pluginBody(p) IN
        /\ regLog' = Append(regLog, Registration(p, ok))
        /\ registered' = IF ok THEN registered \cup {p} ELSE registered
        /\ dbConn' = IF ok /\ p = "prisma" THEN "open" ELSE dbConn
        /\ pc' = IF ok THEN pc ELSE "failed"
    /\ UNCHANGED <<nodeEnv, serverVar, handlersOn, listening, closing, closeState,
                   closeWaiters, handlers, now, exited, exitCode, inflight,
                   accepted, served, hist>>
    /\ UNCHANGED <<secVars, appVars, JWT_SECRET>>

\* tests/server.test.ts:13-16  `await server.ready()` after the registrations
ready ==
    /\ Alive /\ pc = "register"
    /\ pc' = "ready"
    /\ listening' = TRUE
    /\ UNCHANGED <<nodeEnv, serverVar, registered, dbConn, handlersOn, closing,
                   closeState, closeWaiters, handlers, now, exited, exitCode,
                   inflight, accepted, served, hist>>
    /\ UNCHANGED <<secVars, regVars>>
    /\ UNCHANGED <<dbUp, dbFaulted, healthRecords, users, properties, jobs, out>>

GetUrls == {UrlHealth, UrlApiSchema, UrlDocs, UrlSystemHealth, UrlTestDatabase}

\* A GET on the instance: the route's reply when the path is in the route
\* table (the explorer answers 200, or 302 to its index), else the reply of
\* the not-found handler.
serve(url, status) ==
    /\ Alive /\ pc = "ready" /\ listening
    /\ out' = IF pathOf(url) \in routeTable
              THEN [ NoOutput EXCEPT !.by = "route", !.method = "GET", !.url = url,
                       !.status = IF pathOf(url) = UrlDocs THEN status ELSE 200 ]
              ELSE notFoundHandler("GET", url)
    /\ UNCHANGED <<dbUp, dbFaulted, healthRecords, users, properties, jobs>>
    /\ UNCHANGED <<lifeVars, secVars, regVars>>

\* A fresh instance, before any plugin is registered on it.
RegInit ==
    /\ nodeEnv \in EnvValues
    /\ pc = "register"
    /\ serverVar = TRUE
    /\ registered = {}
    /\ dbConn = "none"
    /\ handlersOn = FALSE
    /\ listening = FALSE
    /\ closing = FALSE
    /\ closeState = "idle"
    /\ closeWaiters = <<>>
    /\ handlers = <<>>
    /\ now = 0
    /\ exited = FALSE
    /\ exitCode = 0
    /\ inflight = 0
    /\ accepted = 0
    /\ served = 0
    /\ hist = [failed |-> "none", attempts |-> [s \in StartupSteps |-> 0],
               exitCalls |-> 0, discAttempted |-> FALSE, discOk |-> FALSE,
               timerFired |-> FALSE, readyAtSignal |-> FALSE, initAtSignal |-> FALSE,
               acceptedAtSignal |-> 0]
    /\ store = EmptyStore
    /\ resp = NoResponse
    /\ dbWrites = 0
    /\ reqCount = 0
    /\ AppIdle
    /\ regLog = <<>>
    /\ JWT_SECRET \in JwtSecretValues

RegNext ==
    \/ \E p \in Plugins : register(p)
    \/ ready
    \/ \E u \in GetUrls, st \in {200, 302} : serve(u, st)

RegSpec == RegInit /\ [][RegNext]_vars

----------------------------------------------------------------------------
(* Claims about the lifecycle *)

\* The components the spec requires to be set up before the server listens.
RequiredComponents == {"prisma", "security", "routes"}

\* C1: the server listens (phase ready) only after the persistence probe, the
\* security middleware stack and the route registrar have each completed
\* their setup.
C1_ReadyOnlyAfterAllComponents ==
    listening =>
        /\ hist.attempts["connect"] = 1 /\ hist.attempts["perf"] = 1
        /\ hist.failed = "none"
        /\ RequiredComponents \subseteq registered

\* C2: when a startup step has failed, no request is ever served, no step is
\* attempted twice, and the process exits with status 1.
C2_StartupFailureIsFatal ==
    hist.failed # "none" =>
        /\ accepted = 0 /\ served = 0
        /\ \A s \in StartupSteps : hist.attempts[s] <= 1
        /\ (exited => exitCode = 1)

C4_DeadlineForcesExit1 ==
    /\ \A i \in 1..Len(handlers) : handlers[i].deadline = handlers[i].at + 10000
    /\ (hist.timerFired => exited /\ exitCode = 1)
    /\ (\E i \in 1..Len(handlers) : handlers[i].timer = "fired") => (exited /\ exitCode = 1)
    /\ (exited /\ exitCode = 0 =>
            \A i \in 1..Len(handlers) : now <= handlers[i].deadline)

C4_Witness ==
    /\ hist.timerFired /\ exited /\ exitCode = 1
    /\ closeState = "running" /\ inflight > 0
    /\ Len(handlers) = 2

\* The transitions of the lifecycle phase the spec's state machine names.
ClaimedTransitions ==
    { <<"initializing", "ready">>, <<"initializing", "stopped">>,
      <<"ready", "shutting_down">>, <<"shutting_down", "stopped">> }

\* C5 as stated: the phase only takes the four transitions of the state
\* machine, stopped is terminal, and the exit status is decided exactly once.
C5_OnlyClaimedTransitions ==
    [][ /\ (Phase' # Phase => <<Phase, Phase'>> \in ClaimedTransitions)
        /\ (exited => exited' /\ exitCode' = exitCode)
        /\ hist'.exitCalls <= 1 ]_vars

\* C5 as amended: the phase takes the four transitions of the state machine
\* or, on a signal handled before listening has completed, initializing ->
\* shutting_down; stopped is terminal and the exit status is decided exactly
\* once.
C5_TransitionsWithEarlySignal ==
    [][ /\ (Phase' # Phase =>
                <<Phase, Phase'>> \in
                    ClaimedTransitions \cup {<<"initializing", "shutting_down">>})
        /\ (exited => exited' /\ exitCode' = exitCode /\ Phase' = "stopped")
        /\ hist'.exitCalls <= 1
        /\ (exited' => hist'.exitCalls = 1) ]_vars

C5_Witness ==
    /\ Phase = "stopped" /\ hist.initAtSignal /\ Len(handlers) = 2
    /\ hist.exitCalls = 1

----------------------------------------------------------------------------
(* Claims about the security plugin *)

\* The checks a request went through.
Checks == {resp.trace[i] : i \in 1..Len(resp.trace)}

\* The request reached the authenticate preHandler of a protected route.
Authenticated == resp.handled /\ resp.route \in ProtectedRoutes /\ "authenticate" \in Checks

\* The request reached the rate limiter.
ReachedLimiter == resp.handled /\ "rateLimit" \in Checks

\* The token is absent, is not a JWT, fails the signature, issuer or audience
\* check, or is well-formed but has expired at time t.
Unacceptable(tok, t) ==
    \/ ~tok.some
    \/ tok.v = <<>>
    \/ Len(tok.v) # 1
    \/ tok.v[1] \notin {"V", "W", "X"}
    \/ tok.v[1] = "X" /\ t >= TickMs

\* C6: for every request to a route that requires authentication whose token
\* is absent, invalid or expired, the authentication decorator does not throw,
\* sends 401 with the body {error, message, code: "UNAUTHORIZED"}, and the
\* route handler does not run, so it writes nothing to the database.
C6_UnauthenticatedNeverReachesHandler ==
    (Authenticated /\ Unacceptable(resp.token, resp.at)) =>
        /\ ~resp.reply.threw
        /\ resp.reply.sent /\ resp.reply.status = 401
        /\ resp.reply.code = "UNAUTHORIZED"
        /\ resp.reply.error # "" /\ resp.reply.message # ""
        /\ ~resp.handlerRan
        /\ "handler" \notin Checks
        /\ dbWrites = resp.writesBefore

\* An expired but well-formed token was presented and was answered with 401.
C6_Witness ==
    /\ Authenticated
    /\ resp.token = Some(<<"X">>) /\ resp.at >= TickMs
    /\ resp.reply.status = 401 /\ ~resp.handlerRan

\* The Authorization header carries the prefix "Bearer ".
HasBearer(r) ==
    /\ r.authorization.some
    /\ Len(r.authorization.v) >= 7
    /\ SubSeq(r.authorization.v, 1, 7) = <<"B", "e", "a", "r", "e", "r", " ">>

HasCookie(r) == r.authToken.some /\ r.authToken.v # <<>>

\* C7: the token is the text after "Bearer " of the Authorization header when
\* the header has that prefix; otherwise the authToken cookie when present;
\* otherwise the token query parameter, in development mode only; otherwise
\* there is none.  In production a token supplied only in the query is never
\* used.
C7_TokenExtractionOrder ==
    Authenticated =>
        LET r == resp.req IN
        /\ HasBearer(r) =>
              resp.token = Some(SubSeq(r.authorization.v, 8, Len(r.authorization.v)))
        /\ (~HasBearer(r) /\ HasCookie(r)) => resp.token = r.authToken
        /\ (~HasBearer(r) /\ ~HasCookie(r) /\ r.queryToken.some /\ nodeEnv = "development")
              => resp.token = r.queryToken
        /\ (~HasBearer(r) /\ ~HasCookie(r)
                /\ (~r.queryToken.some \/ nodeEnv # "development"))
              => resp.token = None
        /\ (nodeEnv = "production" /\ ~HasBearer(r) /\ ~HasCookie(r))
              => (resp.token = None /\ resp.reply.status = 401)

\* In development a request without a Bearer header or a cookie was
\* authenticated by the token of its query string.
C7_Witness ==
    /\ Authenticated
    /\ nodeEnv = "development"
    /\ ~HasBearer(resp.req) /\ resp.req.authorization.some
    /\ ~HasCookie(resp.req)
    /\ resp.token = Some(<<"V">>) /\ resp.req.queryToken = Some(<<"V">>)
    /\ resp.handlerRan

\* The limit the spec states for the mode.
MaxRequestsPerWindow == IF nodeEnv = "development" THEN 1000 ELSE 100

\* C8: for every counted request, no request is rejected while its key's
\* count in the current window has not exceeded the limit (1000 in
\* development, 100 otherwise), and the request that makes the count
\* limit + 1 is rejected with status 429 and retryAfter > 0, at whatever
\* instant of the window it arrives.
C8_RejectsExactlyAboveLimit ==
    (ReachedLimiter /\ ~resp.skipped) =>
        LET n == store[resp.key].current IN
        /\ n <= MaxRequestsPerWindow => resp.reply.status # 429
        /\ n = MaxRequestsPerWindow + 1 =>
              (resp.reply.status = 429 /\ resp.reply.retryAfter > 0)

\* The client key the spec states: the first non-empty of x-forwarded-for,
\* x-real-ip and the peer address.
FirstNonEmpty(r) ==
    IF r.xForwardedFor.some /\ r.xForwardedFor.v # <<>> THEN r.xForwardedFor.v
    ELSE IF r.xRealIp.some /\ r.xRealIp.v # <<>> THEN r.xRealIp.v
    ELSE r.peer

\* C9: the rate-limit key of a request is its x-forwarded-for header if
\* non-empty, otherwise its x-real-ip header if non-empty, otherwise the peer
\* address, for every combination of present and absent headers; the request
\* is counted on that key.
C9_ClientKeyPrecedence ==
    (ReachedLimiter /\ ~resp.skipped) =>
        /\ resp.key = FirstNonEmpty(resp.req)
        /\ store[FirstNonEmpty(resp.req)].current = resp.countBefore + 1

\* A request with an empty x-forwarded-for header and an x-real-ip header was
\* counted on the x-real-ip value.
C9_Witness ==
    /\ resp.handled /\ ~resp.skipped
    /\ resp.req.xForwardedFor = Some(<<>>)
    /\ resp.req.xRealIp = Some(<<"7.7.7.7">>)
    /\ resp.key = <<"7.7.7.7">>
    /\ store[<<"7.7.7.7">>].current = resp.countBefore + 1
    /\ store[resp.req.peer].current = 0

\* C10: every request served by a health-check route is exempt from rate
\* limiting: it is never answered with 429 and never consumes quota, whatever
\* query string, trailing slash or letter case its URL carries.
C10_HealthAlwaysExempt ==
    (ReachedLimiter /\ resp.route \in HealthRoutes) =>
        /\ resp.skipped
        /\ resp.reply.status # 429
        /\ store[resp.key].current = resp.countBefore

\* The order in which the spec lists the checks, then the route handler.
CheckOrder == <<"cors", "helmet", "rateLimit", "authenticate", "handler">>

PositionOf(c) == CHOOSE i \in 1..Len(CheckOrder) : CheckOrder[i] = c

----------------------------------------------------------------------------
(* Claims about the not-found handler and the error handler *)

\* sub occurs in text as a run of consecutive parts.
Contains(text, sub) ==
    \E i \in 1..(Len(text) - Len(sub) + 1) : SubSeq(text, i, i + Len(sub) - 1) = sub

\* The server runs in development mode: NODE_ENV is 'development', or is not
\* set and defaults to it.
DevelopmentMode == nodeEnv \in {"development", "unset"}

\* C13: for every request that matches no route the status is 404 and the
\* body is {error: "Not Found", message, statusCode: 404, timestamp} with a
\* message that contains the request's method and path; the list of known
\* routes is in the body if and only if the server runs in development mode.
C13_NotFoundReply ==
    out.by = "notFound" =>
        /\ out.status = 404
        /\ out.body.error = "Not Found"
        /\ out.body.statusCode = 404
        /\ out.body.timestamp = now
        /\ Contains(out.body.message, <<out.method>>)
        /\ Contains(out.body.message, pathOf(out.url))
        /\ out.body.availableRoutes.some <=> DevelopmentMode

\* In production a POST to an unknown URL with a query string was answered 404
\* without the list of routes.
C13_Witness ==
    /\ out.by = "notFound" /\ nodeEnv = "production"
    /\ out.method = "POST" /\ out.url = <<"/", "route-inexistante", "?", "x=1">>
    /\ out.status = 404 /\ ~out.body.availableRoutes.some

\* C14: for every failure a route raises, the error handler answers with the
\* status code the failure carries, or 500 when it carries none; a status of
\* 500 or more is logged at error level with the stack trace, a status in
\* [400,500) at warning level without it.
C14_StatusAndLogLevel ==
    out.by = "error" =>
        LET e == out.failure.v IN
        /\ e.statusCode.some => out.status = e.statusCode.v
        /\ ~e.statusCode.some => out.status = 500
        /\ out.body.statusCode = out.status
        /\ out.status >= 500 => (out.log.level = "error" /\ out.log.stack = Some(e.stack))
        /\ (out.status >= 400 /\ out.status < 500) =>
              (out.log.level = "warn" /\ out.log.stack = None)

\* A failure without a status code was answered 500 and logged at error level
\* with its stack.
C14_Witness ==
    /\ out.by = "error" /\ ~out.failure.v.statusCode.some
    /\ out.status = 500 /\ out.log.level = "error" /\ out.log.stack.some

\* Two failures that differ at most in their message and stack.
SameButText(e1, e2) ==
    /\ e1.name = e2.name /\ e1.statusCode = e2.statusCode
    /\ e1.validation = e2.validation

\* C15: for every failure with status 500 or more handled outside development
\* mode, the body carries the fixed generic message and nothing of the
\* failure's message or stack (failures that differ only in those get the same
\* body); for every failure with status in [400,500) the body's message is the
\* failure's message, in every mode.
C15_NoLeakOfInternalText ==
    out.by = "error" =>
        LET e == out.failure.v IN
        /\ (out.status >= 500 /\ ~DevelopmentMode) =>
              /\ out.body.message = <<"Une erreur interne est survenue">>
              /\ out.body.stack = None
              /\ \A e2 \in Failures :
                    SameButText(e, e2) =>
                        errorHandler(e2, out.method, out.url).body = out.body
        /\ (out.status >= 400 /\ out.status < 500) => out.body.message = e.message

\* In production a failure with status 503 and a message naming a file was
\* answered with the generic message.
C15_Witness ==
    /\ out.by = "error" /\ nodeEnv = "production"
    /\ out.failure.v.statusCode = Some(503)
    /\ out.failure.v.message = <<"m2 at /srv/app/db.ts:12">>
    /\ out.body.message = <<"Une erreur interne est survenue">>

\* C16: for every validation failure the error handler handles, the body
\* contains the failure's per-field detail list unchanged, in development mode
\* and in every other mode.
C16_ValidationDetailInEveryMode ==
    (out.by = "error" /\ out.failure.v.validation.some) =>
        out.body.validation = out.failure.v.validation

----------------------------------------------------------------------------
(* Claims about the routes *)

\* The requests to a health endpoint that have been answered.
HealthAnswered ==
    { i \in 1..Len(jobs) :
        jobs[i].kind \in {"rootHealth", "systemHealth"} /\ jobs[i].stage = "done" }

\* C17: whenever the database fails to answer while the server is serving,
\* the health endpoint, GET /health and GET /api/system/health alike, answers
\* 200 with status degraded and database status disconnected, never a 5xx;
\* whenever the probe and the record write succeed it answers status healthy
\* and database status connected.
C17_HealthDegradesNever5xx ==
    \A i \in HealthAnswered :
        /\ jobs[i].reply.status = 200
        /\ ~jobs[i].reply.dbAnswered =>
              (jobs[i].reply.health = "degraded" /\ jobs[i].reply.database = "disconnected")
        /\ jobs[i].reply.dbAnswered =>
              (jobs[i].reply.health = "healthy" /\ jobs[i].reply.database = "connected")

\* C18: every successful health probe adds exactly one health record: after
\* any interleaving of n health probes against a database that never failed,
\* each was answered healthy and the number of health records has grown by n.
C18_OneRecordPerProbe ==
    ~dbFaulted =>
        /\ \A i \in HealthAnswered : jobs[i].reply.health = "healthy"
        /\ healthRecords = Cardinality(HealthAnswered)

\* The requests to POST /api/test/users with a well-formed body and the email e.
Posted(e) ==
    { i \in 1..Len(jobs) :
        /\ jobs[i].kind = "createUser" /\ jobs[i].body.email = e
        /\ jobs[i].body.firstName # <<>> /\ jobs[i].body.lastName # <<>> }

Created(e) == { i \in Posted(e) : jobs[i].stage = "done" /\ jobs[i].reply.status = 201 }

Malformed(body) ==
    body.email \notin GoodEmails \/ body.firstName = <<>> \/ body.lastName = <<>>

\* C20: every POST /api/test/users request with a malformed body is answered
\* 400 with success: false, an error text that names the validation failure
\* and the field-level details, and creates no user.
C20_MalformedBodyRejected ==
    \A i \in 1..Len(jobs) :
        (jobs[i].kind = "createUser" /\ Malformed(jobs[i].body)) =>
            /\ jobs[i].stage = "done"
            /\ jobs[i].reply.status = 400
            /\ jobs[i].reply.success = "false"
            /\ jobs[i].reply.error # <<>>
            /\ jobs[i].reply.details.some
            /\ ~jobs[i].reply.user.some
            /\ \A k \in 1..Len(users) : users[k].email # jobs[i].body.email

----------------------------------------------------------------------------
(* Claims about the composition of the plugins *)

\* C22: once createServer has returned and the server is ready, the prisma,
\* security and swagger plugins are registered and the instance carries the
\* prisma handle and the authenticate decorator.
C22_PluginsAndDecoratorsAtReady ==
    (serverVar /\ Phase = "ready") =>
        /\ {"prisma", "security", "swagger"} \subseteq registered
        /\ {"prisma", "authenticate"} \subseteq decorators

\* The registrations that completed before the i-th of the log.
CompletedBefore(i) == { regLog[j].plugin : j \in { k \in 1..(i - 1) : regLog[k].ok } }

\* C23: every registration that completes is one of the security stack, or
\* comes after the security stack has completed; the documentation publisher
\* completes only after the security stack and the route registrar only after
\* the persistence connector.
C23_SecurityFirstThenDependents ==
    \A i \in 1..Len(regLog) :
        regLog[i].ok =>
            /\ regLog[i].plugin # "security" => "security" \in CompletedBefore(i)
            /\ regLog[i].plugin = "swagger" => "security" \in CompletedBefore(i)
            /\ regLog[i].plugin = "routes" => "prisma" \in CompletedBefore(i)

\* C25: on an instance with the documentation publisher, GET /api-schema is
\* answered by its route in every mode, and GET /docs is answered by the
\* explorer in every mode but production, where it is answered 404.
C25_SchemaAlwaysDocsOutsideProduction ==
    ("swagger" \in registered /\ out.by # "none") =>
        /\ pathOf(out.url) = UrlApiSchema => out.by = "route"
        /\ pathOf(out.url) = UrlDocs =>
              IF isProd THEN out.by = "notFound" /\ out.status = 404
              ELSE out.by = "route"

\* C26: in production without a JWT secret the server never listens.
C26_MissingSecretStopsProduction ==
    (nodeEnv = "production" /\ ~Truthy(JWT_SECRET)) => ~listening

C28_NegativePriceAnswered500 ==
    \A i \in 1..Len(jobs) :
        (/\ jobs[i].kind \in {"createProperty", "unroutedProperty"}
         /\ jobs[i].body.price < 0) =>
            /\ jobs[i].stage = "done"
            /\ jobs[i].reply.status = 500
            /\ \A k \in 1..Len(properties) : properties[k].price >= 0

----------------------------------------------------------------------------
(* Claims about a serving process *)

\* A step in which a request is answered or the database changes its state.
RequestStep == resp' # resp \/ jobs' # jobs \/ out' # out \/ dbUp' # dbUp

\* C27: a step that answers a request (an authentication failure, a rate-limit
\* rejection, a validation failure, a handler exception, a health probe that
\* finds the database down) leaves the lifecycle phase and the process as they
\* are; the process exits only after a startup failure, once the close
\* procedure of a shutdown has ended, or when the shutdown timer fires.
C27_FaultsNeverEndTheProcess ==
    [][ /\ RequestStep => (Phase' = Phase /\ exited' = exited /\ pc' = pc)
        /\ (exited' /\ ~exited) =>
              \/ hist'.failed # "none"
              \/ closeState \in {"done", "failed"} /\ handlers # <<>>
              \/ hist'.timerFired ]_vars

\* After a request was refused (401 or 429) the process kept serving and
\* ended by a shutdown that ran to its end.
C27_Witness ==
    /\ resp.handled /\ resp.reply.status \in {401, 429}
    /\ exited /\ exitCode = 0 /\ closeState = "done"
    /\ ~hist.timerFired /\ hist.failed = "none"

\* C29: when the process has exited otherwise than by the shutdown timer, a
\* persistence connection that had been opened has been released.
C29_ConnectionReleasedBeforeExit ==
    (exited /\ ~hist.timerFired /\ dbConn # "none") => dbConn = "closed"

----------------------------------------------------------------------------
(* Claims about the rate limiter under chosen proxy headers *)

\* The requests counted on key k in its running window that the limiter let
\* through.
LetThroughOn(k) ==
    IF store[k].current = 0 \/ store[k].iterationStartMs + timeWindow <= now THEN 0
    ELSE IF store[k].current <= max THEN store[k].current
    ELSE max

RECURSIVE SumLetThrough(_)
SumLetThrough(keys) ==
    IF keys = {} THEN 0
    ELSE LET k == CHOOSE x \in keys : TRUE
         IN  LetThroughOn(k) + SumLetThrough(keys \ {k})

\* C30: the requests of the one peer that the limiter let through within the
\* last window, summed over the keys they were counted on, never exceed the
\* limit, whatever x-forwarded-for header the peer sent with each.
C30_PeerNeverExceedsLimit ==
    (\A r \in BurstRequests : r.peer = <<"10.0.0.1">>) =>
        SumLetThrough(ClientKeys) <= max

====
